---- MODULE Spec2Model ----
(***************************************************************************)
(* Model of class PageReplacementSimulator (src/unnamed/part_000): the     *)
(* constructor with its reference-string parser, initializeAlgorithm,      *)
(* processPage with the four eviction policies, simulate, getStatistics    *)
(* and getExecutionTrace.                                                  *)
(*                                                                         *)
(* JavaScript values are modelled as integers.  A text is a sequence of    *)
(* one-character strings.  The three non-integer values the code can       *)
(* produce (NaN, undefined, null) are distinct negative integers; the      *)
(* modelled input alphabet has no sign character, so Number.parseInt       *)
(* never yields a negative number that could be confused with them.        *)
(***************************************************************************)
EXTENDS Integers, Sequences, FiniteSets, TLC

(* ------------------------------------------------------------------ *)
(* Bounds of the explored inputs                                      *)
(* ------------------------------------------------------------------ *)
\* longest enumerated list of page tokens
MaxLen == 4
\* enumerated page tokens are the digits "1" .. MaxPage
MaxPage == 3
\* enumerated frame counts are 1 .. MaxFrames (0 .. MaxFrames on short lists)
MaxFrames == 2
\* longest enumerated list that holds malformed tokens or uses spaces
MaxShort == 2
\* how many times simulate() is called on one instance
MaxRuns == 2

(* ------------------------------------------------------------------ *)
(* JavaScript values and array primitives                             *)
(* ------------------------------------------------------------------ *)
\* the result of Number.parseInt on a text with no leading digit
NaN == -101
\* the value of a missing array element or of a switch that falls through
Undefined == -102
\* what JSON.stringify writes for NaN
Null == -103
\* Number.POSITIVE_INFINITY: larger than every index of a reference string
Infinity == 1000000

\* a === b (strict equality: NaN equals nothing, itself included)
StrictEquals(a, b) == a = b /\ a # NaN

\* a variant that looks at the first slot only
IncludesHead(arr, v) == Len(arr) > 0 /\ arr[1] = v

\* a variant that compares as indexOf does, so that NaN is never found
IncludesStrict(arr, v) == \E k \in 1..Len(arr) : StrictEquals(arr[k], v)

\* arr.includes(v): SameValueZero, under which NaN is found
Includes(arr, v) == \E k \in 1..Len(arr) : arr[k] = v

\* arr.indexOf(v): 0-based index of the first strictly equal element, or -1
IndexOf(arr, v) ==
    IF \E k \in 1..Len(arr) : StrictEquals(arr[k], v)
    THEN (CHOOSE k \in 1..Len(arr) :
             /\ StrictEquals(arr[k], v)
             /\ \A j \in 1..(k - 1) : ~StrictEquals(arr[j], v)) - 1
    ELSE -1

\* arr[index] read with a 0-based index: undefined outside 0 .. length-1
ElementAt(arr, index) ==
    IF index \in 0..(Len(arr) - 1) THEN arr[index + 1] ELSE Undefined

\* arr[index] = v with a 0-based index.  indexOf only yields -1 or an index
\* below the length; with -1 the assignment creates the property "-1",
\* which length, includes, indexOf and the spread [...arr] do not see.
AssignElement(arr, index, v) ==
    IF index \in 0..(Len(arr) - 1) THEN [arr EXCEPT ![index + 1] = v] ELSE arr

\* a variant that reads the head and leaves it in the array
ShiftRestKept(arr) == arr

\* arr.shift(): the removed head (undefined for an empty array) and the rest
ShiftValue(arr) == IF Len(arr) = 0 THEN Undefined ELSE Head(arr)
ShiftRest(arr) == IF Len(arr) = 0 THEN arr ELSE Tail(arr)

\* arr.filter((p) => p !== v)
FilterNotEqual(arr, v) == SelectSeq(arr, LAMBDA p : ~StrictEquals(p, v))

\* (a + 1) % n on JavaScript numbers: NaN for a NaN operand or a zero divisor
\* a variant that advances without wrapping round
NextUnwrapped(a, n) == IF a = NaN THEN NaN ELSE a + 1

NextModulo(a, n) == IF a = NaN \/ n = 0 THEN NaN ELSE (a + 1) % n

(* ------------------------------------------------------------------ *)
(* The reference-string parser of the constructor                     *)
(* ------------------------------------------------------------------ *)
DigitChars == <<"0", "1", "2", "3", "4", "5", "6", "7", "8", "9">>
IsDigit(c) == \E k \in 1..10 : DigitChars[k] = c
DigitValue(c) == (CHOOSE k \in 1..10 : DigitChars[k] = c) - 1
IsSpace(c) == c = " "

\* text.split(","): the pieces between commas, empty pieces included
RECURSIVE SplitComma(_)
SplitComma(text) ==
    IF \E k \in 1..Len(text) : text[k] = ","
    THEN LET k == CHOOSE k \in 1..Len(text) :
                      text[k] = "," /\ \A j \in 1..(k - 1) : text[j] # ","
         IN  <<SubSeq(text, 1, k - 1)>> \o SplitComma(SubSeq(text, k + 1, Len(text)))
    ELSE <<text>>

\* x.trim()
RECURSIVE TrimStart(_)
TrimStart(text) ==
    IF Len(text) > 0 /\ IsSpace(text[1]) THEN TrimStart(Tail(text)) ELSE text
RECURSIVE TrimEnd(_)
TrimEnd(text) ==
    IF Len(text) > 0 /\ IsSpace(text[Len(text)])
    THEN TrimEnd(SubSeq(text, 1, Len(text) - 1)) ELSE text
Trim(text) == TrimEnd(TrimStart(text))

\* the value of the longest digit prefix of text, read left to right
RECURSIVE DigitPrefixValue(_, _)
DigitPrefixValue(text, acc) ==
    IF Len(text) > 0 /\ IsDigit(text[1])
    THEN DigitPrefixValue(Tail(text), acc * 10 + DigitValue(text[1]))
    ELSE acc

\* Number.parseInt(text): skips leading white space, reads the longest
\* digit prefix and ignores what follows it; NaN when there is no digit
ParseInt(text) ==
    LET t == TrimStart(text)
    IN  IF Len(t) > 0 /\ IsDigit(t[1]) THEN DigitPrefixValue(t, 0) ELSE NaN

\* referenceString.split(",").map((x) => Number.parseInt(x.trim()))
ParseReferenceString(text) ==
    LET pieces == SplitComma(text)
    IN  [k \in 1..Len(pieces) |-> ParseInt(Trim(pieces[k]))]

(* ------------------------------------------------------------------ *)
(* Policy state                                                       *)
(* ------------------------------------------------------------------ *)
\* the object literal {}
EmptyObject == <<>>

\* obj[key] = value on an object used as a map
SetKey(obj, key, value) == (key :> value) @@ obj

\* calculateFutureReferences after the first n references have been scanned
RECURSIVE FutureReferencesUpTo(_, _)
FutureReferencesUpTo(refs, n) ==
    IF n = 0 THEN EmptyObject
    ELSE LET futureRefs == FutureReferencesUpTo(refs, n - 1)
             page == refs[n]
             seen == IF page \in DOMAIN futureRefs THEN futureRefs[page] ELSE <<>>
         IN  SetKey(futureRefs, page, Append(seen, n - 1))

\* a variant that records only the first position of every page
RECURSIVE FirstReferencesUpTo(_, _)
FirstReferencesUpTo(refs, n) ==
    IF n = 0 THEN EmptyObject
    ELSE LET futureRefs == FirstReferencesUpTo(refs, n - 1)
             page == refs[n]
         IN  IF page \in DOMAIN futureRefs THEN futureRefs
             ELSE SetKey(futureRefs, page, <<n - 1>>)

calculateFutureReferencesFirstOnly(refs) == FirstReferencesUpTo(refs, Len(refs))

calculateFutureReferences(refs) == FutureReferencesUpTo(refs, Len(refs))

initializeAlgorithm(algorithm, refs) ==
    CASE algorithm = "fifo" -> [queue |-> <<>>]
      [] algorithm = "lru" -> [recencyList |-> <<>>]
      [] algorithm = "optimal" -> [futureReferences |-> calculateFutureReferences(refs)]
      [] algorithm = "clock" -> [referenceFlags |-> EmptyObject, clockPointer |-> 0]
      [] OTHER -> EmptyObject

(* ------------------------------------------------------------------ *)
(* Victim selection                                                   *)
(* ------------------------------------------------------------------ *)
\* futureIndices.find((idx) => idx > currentStep) || Number.POSITIVE_INFINITY
NextOccurrence(futureIndices, currentStep) ==
    LET later == {k \in 1..Len(futureIndices) : futureIndices[k] > currentStep}
        found == IF later = {} THEN Undefined
                 ELSE futureIndices[CHOOSE k \in later : \A j \in later : k <= j]
    IN  IF found = Undefined \/ found = 0 THEN Infinity ELSE found

\* the for-of loop of selectOptimalPage from frame slot k (1-based) on
RECURSIVE OptimalScan(_, _, _, _, _, _)
OptimalScan(frames, futureReferences, currentStep, k, farthestPage, farthestIndex) ==
    IF k > Len(frames) THEN farthestPage
    ELSE LET page == frames[k]
             futureIndices == IF page \in DOMAIN futureReferences
                              THEN futureReferences[page] ELSE <<>>
             nextIndex == NextOccurrence(futureIndices, currentStep)
         IN  IF nextIndex > farthestIndex
             THEN OptimalScan(frames, futureReferences, currentStep, k + 1, page, nextIndex)
             ELSE OptimalScan(frames, futureReferences, currentStep, k + 1,
                              farthestPage, farthestIndex)

\* Variant: the loop keeps the page whose next use is nearest, not farthest
\* (farthestIndex starts above every index and the comparison is <)
RECURSIVE OptimalScanNearest(_, _, _, _, _, _)
OptimalScanNearest(frames, futureReferences, currentStep, k, nearestPage, nearestIndex) ==
    IF k > Len(frames) THEN nearestPage
    ELSE LET page == frames[k]
             futureIndices == IF page \in DOMAIN futureReferences
                              THEN futureReferences[page] ELSE <<>>
             nextIndex == NextOccurrence(futureIndices, currentStep)
         IN  IF nextIndex < nearestIndex
             THEN OptimalScanNearest(frames, futureReferences, currentStep, k + 1,
                                     page, nextIndex)
             ELSE OptimalScanNearest(frames, futureReferences, currentStep, k + 1,
                                     nearestPage, nearestIndex)

selectOptimalPageNearest(frames, futureReferences, currentStep) ==
    OptimalScanNearest(frames, futureReferences, currentStep, 1,
                       ElementAt(frames, 0), Infinity + 1)

selectOptimalPage(frames, futureReferences, currentStep) ==
    OptimalScan(frames, futureReferences, currentStep, 1,
                ElementAt(frames, 0), currentStep)

\* referenceFlags[page] read as a condition: a missing key is falsy
FlagSet(referenceFlags, page) ==
    page \in DOMAIN referenceFlags /\ referenceFlags[page]

\* the while loop of selectClockPage; inspected counts the slots looked at
RECURSIVE ClockScan(_, _, _, _)
ClockScan(frames, referenceFlags, clockPointer, inspected) ==
    LET page == ElementAt(frames, clockPointer)
    IN  IF FlagSet(referenceFlags, page)
        THEN ClockScan(frames, SetKey(referenceFlags, page, FALSE),
                       NextModulo(clockPointer, Len(frames)), inspected + 1)
        ELSE [page |-> page,
              referenceFlags |-> referenceFlags,
              clockPointer |-> NextModulo(clockPointer, Len(frames)),
              inspected |-> inspected + 1]

\* a variant of the loop that gives the second chance without clearing the
\* flag; it is cut off once it has gone round the frame list three times
RECURSIVE ClockScanNoClear(_, _, _, _)
ClockScanNoClear(frames, referenceFlags, clockPointer, inspected) ==
    LET page == ElementAt(frames, clockPointer)
    IN  IF FlagSet(referenceFlags, page) /\ inspected < 3 * Len(frames)
        THEN ClockScanNoClear(frames, referenceFlags,
                              NextModulo(clockPointer, Len(frames)), inspected + 1)
        ELSE [page |-> page,
              referenceFlags |-> referenceFlags,
              clockPointer |-> NextModulo(clockPointer, Len(frames)),
              inspected |-> inspected + 1]

selectClockPageNoClear(frames, dataStructures) ==
    ClockScanNoClear(frames, dataStructures.referenceFlags, dataStructures.clockPointer, 0)

selectClockPage(frames, dataStructures) ==
    ClockScan(frames, dataStructures.referenceFlags, dataStructures.clockPointer, 0)

\* selectPageToReplace: the victim and the policy state it leaves behind
selectPageToReplace(algorithm, frames, dataStructures, currentStep) ==
    CASE algorithm = "fifo" ->
           [page |-> ShiftValue(dataStructures.queue),
            dataStructures |-> [dataStructures EXCEPT !.queue = ShiftRest(@)]]
      [] algorithm = "lru" ->
           [page |-> ShiftValue(dataStructures.recencyList),
            dataStructures |-> [dataStructures EXCEPT !.recencyList = ShiftRest(@)]]
      [] algorithm = "optimal" ->
           [page |-> selectOptimalPage(frames, dataStructures.futureReferences, currentStep),
            dataStructures |-> dataStructures]
      [] algorithm = "clock" ->
           LET scan == selectClockPage(frames, dataStructures)
           IN  [page |-> scan.page,
                dataStructures |-> [referenceFlags |-> scan.referenceFlags,
                                    clockPointer |-> scan.clockPointer]]
      [] OTHER -> [page |-> Undefined, dataStructures |-> dataStructures]

\* Variant: FIFO moves a page to the tail of the queue on a hit as well
updateDataStructuresFifoOnHit(algorithm, dataStructures, pageNumber, isHit) ==
    CASE algorithm = "fifo" ->
           [dataStructures EXCEPT
               !.queue = Append(FilterNotEqual(@, pageNumber), pageNumber)]
      [] algorithm = "lru" ->
           [dataStructures EXCEPT
               !.recencyList = Append(FilterNotEqual(@, pageNumber), pageNumber)]
      [] algorithm = "clock" ->
           [dataStructures EXCEPT !.referenceFlags = SetKey(@, pageNumber, TRUE)]
      [] OTHER -> dataStructures

\* Variant: LRU updates the recency list on faults only
updateDataStructuresLruOnFault(algorithm, dataStructures, pageNumber, isHit) ==
    CASE algorithm = "fifo" ->
           IF ~isHit
           THEN [dataStructures EXCEPT !.queue = Append(@, pageNumber)]
           ELSE dataStructures
      [] algorithm = "lru" ->
           IF ~isHit
           THEN [dataStructures EXCEPT
                    !.recencyList = Append(FilterNotEqual(@, pageNumber), pageNumber)]
           ELSE dataStructures
      [] algorithm = "clock" ->
           [dataStructures EXCEPT !.referenceFlags = SetKey(@, pageNumber, TRUE)]
      [] OTHER -> dataStructures

\* a variant that sets the reference flag on hits only
updateDataStructuresClockOnHit(algorithm, dataStructures, pageNumber, isHit) ==
    CASE algorithm = "fifo" ->
           IF ~isHit
           THEN [dataStructures EXCEPT !.queue = Append(@, pageNumber)]
           ELSE dataStructures
      [] algorithm = "lru" ->
           [dataStructures EXCEPT
               !.recencyList = Append(FilterNotEqual(@, pageNumber), pageNumber)]
      [] algorithm = "clock" ->
           IF isHit
           THEN [dataStructures EXCEPT !.referenceFlags = SetKey(@, pageNumber, TRUE)]
           ELSE dataStructures
      [] OTHER -> dataStructures

\* a variant that appends to the recency list without removing the page first
updateDataStructuresLruNoFilter(algorithm, dataStructures, pageNumber, isHit) ==
    CASE algorithm = "fifo" ->
           IF ~isHit
           THEN [dataStructures EXCEPT !.queue = Append(@, pageNumber)]
           ELSE dataStructures
      [] algorithm = "lru" ->
           [dataStructures EXCEPT !.recencyList = Append(@, pageNumber)]
      [] algorithm = "clock" ->
           [dataStructures EXCEPT !.referenceFlags = SetKey(@, pageNumber, TRUE)]
      [] OTHER -> dataStructures

updateDataStructures(algorithm, dataStructures, pageNumber, isHit) ==
    CASE algorithm = "fifo" ->
           IF ~isHit
           THEN [dataStructures EXCEPT !.queue = Append(@, pageNumber)]
           ELSE dataStructures
      [] algorithm = "lru" ->
           [dataStructures EXCEPT
               !.recencyList = Append(FilterNotEqual(@, pageNumber), pageNumber)]
      [] algorithm = "clock" ->
           [dataStructures EXCEPT !.referenceFlags = SetKey(@, pageNumber, TRUE)]
      [] OTHER -> dataStructures

(* ------------------------------------------------------------------ *)
(* processPage                                                        *)
(* ------------------------------------------------------------------ *)
\* a number as JSON.parse(JSON.stringify(x)) returns it
JsonNumber(x) == IF x = NaN THEN Null ELSE x

\* JSON.parse(JSON.stringify(dataStructures)): arrays of pages and the
\* pointer lose NaN; flags (booleans) and index lists (integers) survive
JsonRoundTrip(dataStructures) ==
    [f \in DOMAIN dataStructures |->
        CASE f \in {"queue", "recencyList"} ->
               [k \in 1..Len(dataStructures[f]) |-> JsonNumber(dataStructures[f][k])]
          [] f = "clockPointer" -> JsonNumber(dataStructures[f])
          [] OTHER -> dataStructures[f]]

\* [...arr]
SpreadCopy(arr) == [k \in 1..Len(arr) |-> arr[k]]

\* Variant: a StepRecord is pushed for faults only
HistoryPushFaultsOnly(history, stepIndex, pageNumber, isHit, frames, dataStructures) ==
    IF isHit THEN history
    ELSE Append(history,
                [step |-> stepIndex,
                 page |-> pageNumber,
                 isHit |-> isHit,
                 frames |-> SpreadCopy(frames),
                 dataStructures |-> JsonRoundTrip(dataStructures)])

\* Variant: the StepRecord holds this.frames itself (frames: this.frames), so
\* every record shows the frame list as it is now
HistoryPushSharedFrames(history, stepIndex, pageNumber, isHit, frames, dataStructures) ==
    Append([k \in 1..Len(history) |-> [history[k] EXCEPT !.frames = frames]],
           [step |-> stepIndex,
            page |-> pageNumber,
            isHit |-> isHit,
            frames |-> frames,
            dataStructures |-> JsonRoundTrip(dataStructures)])

\* history.push({step, page, isHit, frames: [...frames], dataStructures: copy})
HistoryPush(history, stepIndex, pageNumber, isHit, frames, dataStructures) ==
    Append(history,
           [step |-> stepIndex,
            page |-> pageNumber,
            isHit |-> isHit,
            frames |-> SpreadCopy(frames),
            dataStructures |-> JsonRoundTrip(dataStructures)])

\* Variant: the capacity test is frames.length <= numFrames
FaultFramesOffByOne(self, pageNumber, victim) ==
    IF Len(self.frames) <= self.numFrames
    THEN Append(self.frames, pageNumber)
    ELSE AssignElement(self.frames, IndexOf(self.frames, victim), pageNumber)

\* the frame list after a fault
FaultFrames(self, pageNumber, victim) ==
    IF Len(self.frames) < self.numFrames
    THEN Append(self.frames, pageNumber)
    ELSE AssignElement(self.frames, IndexOf(self.frames, victim), pageNumber)

processPage(self, pageNumber, stepIndex) ==
    LET isHit == Includes(self.frames, pageNumber)
        full == ~(Len(self.frames) < self.numFrames)
        selected == IF ~isHit /\ full
                    THEN selectPageToReplace(self.algorithm, self.frames,
                                             self.dataStructures, stepIndex)
                    ELSE [page |-> Undefined, dataStructures |-> self.dataStructures]
        newFrames == IF isHit THEN self.frames
                     ELSE FaultFrames(self, pageNumber, selected.page)
        newData == updateDataStructures(self.algorithm, selected.dataStructures,
                                        pageNumber, isHit)
    IN  [self EXCEPT
            !.pageHits = IF isHit THEN @ + 1 ELSE @,
            !.pageFaults = IF isHit THEN @ ELSE @ + 1,
            !.frames = newFrames,
            !.dataStructures = newData,
            !.history = HistoryPush(@, stepIndex, pageNumber, isHit, newFrames, newData)]

\* the instance the constructor builds
constructor(referenceString, numFrames, algorithm) ==
    LET refs == ParseReferenceString(referenceString)
    IN  [referenceString |-> refs,
         numFrames |-> numFrames,
         algorithm |-> algorithm,
         frames |-> <<>>,
         pageFaults |-> 0,
         pageHits |-> 0,
         history |-> <<>>,
         dataStructures |-> initializeAlgorithm(algorithm, refs)]

\* simulate() on an instance, from loop index n (0-based) to the end
RECURSIVE SimulateFrom(_, _)
SimulateFrom(self, n) ==
    IF n < Len(self.referenceString)
    THEN SimulateFrom(processPage(self, self.referenceString[n + 1], n), n + 1)
    ELSE self

simulate(self) == SimulateFrom(self, 0)

(* ------------------------------------------------------------------ *)
(* Reporting                                                          *)
(* ------------------------------------------------------------------ *)
\* ((hits / total) * 100).toFixed(2), as the number of hundredths it prints.
\* Rounding to nearest; a tie needs total to be a multiple of 32, which no
\* explored run reaches.
ToFixed2(hits, total) == (hits * 20000 + total) \div (2 * total)

\* hitRatio: the text of toFixed(2) when total > 0, else the number 0
HitRatio(hits, total) ==
    IF total > 0 THEN [text |-> TRUE, hundredths |-> ToFixed2(hits, total)]
    ELSE [text |-> FALSE, hundredths |-> 0]

getStatistics(self) ==
    LET total == self.pageFaults + self.pageHits
    IN  [pageFaults |-> self.pageFaults,
         pageHits |-> self.pageHits,
         hitRatio |-> HitRatio(self.pageHits, total),
         totalReferences |-> total]

\* the instance after getStatistics(): the method reads pageFaults and
\* pageHits and assigns no field
AfterGetStatistics(self) == self

\* algorithm.toUpperCase()
ToUpperCase(algorithm) ==
    CASE algorithm = "fifo" -> "FIFO"
      [] algorithm = "lru" -> "LRU"
      [] algorithm = "optimal" -> "OPTIMAL"
      [] algorithm = "clock" -> "CLOCK"
      [] algorithm = "random" -> "RANDOM"

\* a variant of getExecutionTrace that runs the simulation again for its lines
AfterGetExecutionTraceRerun(self) == simulate(self)

\* the instance after getExecutionTrace(): the method reads the fields, calls
\* getStatistics() and assigns no field
AfterGetExecutionTrace(self) == self

\* the report of getExecutionTrace, kept as its parts in print order
getExecutionTrace(self) ==
    [algorithm |-> ToUpperCase(self.algorithm),
     numFrames |-> self.numFrames,
     referenceString |-> self.referenceString,
     pageFaults |-> self.pageFaults,
     pageHits |-> self.pageHits,
     hitRatio |-> getStatistics(self).hitRatio,
     lines |-> [k \in 1..Len(self.history) |->
                   [step |-> self.history[k].step,
                    page |-> self.history[k].page,
                    isHit |-> self.history[k].isHit,
                    frames |-> self.history[k].frames]]]

(* ------------------------------------------------------------------ *)
(* Explored inputs                                                    *)
(* ------------------------------------------------------------------ *)
\* pieces.join(sep) on texts
RECURSIVE Join(_, _)
Join(pieces, sep) ==
    IF Len(pieces) = 0 THEN <<>>
    ELSE IF Len(pieces) = 1 THEN pieces[1]
    ELSE pieces[1] \o sep \o Join(Tail(pieces), sep)

ListsUpTo(S, n) == UNION {[1..m -> S] : m \in 0..n}

\* the page tokens "1" .. MaxPage
PageTokens == {<<DigitChars[d + 1]>> : d \in 1..MaxPage}
\* tokens of the short lists: pages, a padded page, and tokens that are no integer
ShortTokens == {<<"1">>, <<"2">>, <<" ", "1">>, <<"x">>, <<"2", "x">>, <<>>}
Separators == {<<",">>, <<" ">>}

Comma == <<",">>
Space == <<" ">>

\* README "Belady's Anomaly (FIFO)" and the README default sequence
BeladyPages == <<1, 2, 3, 4, 1, 2, 5, 1, 2, 3, 4, 5>>
DefaultPages == <<7, 0, 1, 2, 0, 3, 0, 4, 2, 3, 0, 3, 2, 1, 2, 0, 1, 7, 0, 1>>
\* a list of one-digit pages written out with a separator
Render(pages, sep) == Join([k \in 1..Len(pages) |-> <<DigitChars[pages[k] + 1]>>], sep)

\* comma-separated lists of pages
PageInputs == {Join(l, Comma) : l \in ListsUpTo(PageTokens, MaxLen)}
\* short lists of any tokens, comma- or space-separated
ShortInputs == {Join(l, sep) : l \in ListsUpTo(ShortTokens, MaxShort), sep \in Separators}
NamedInputs ==
    {Render(pages, sep) : pages \in {BeladyPages, DefaultPages}, sep \in Separators}
NamedFrameCounts == {3, 4}
\* comma-separated lists of pages with one token that is no integer among them
MixedInputs ==
    {Join(<<<<"x">>, <<"1">>, <<"2">>>>, Comma),
     Join(<<<<"1">>, <<"x">>, <<"1">>, <<"2">>>>, Comma),
     Join(<<<<"1">>, <<"x">>, <<"2">>, <<"3">>, <<"4">>>>, Comma)}

Algorithms == {"fifo", "lru", "optimal", "clock"}
\* the selectors tried: the four algorithms and one the switches do not know
Selectors == Algorithms \cup {"random"}

(* ------------------------------------------------------------------ *)
(* State                                                              *)
(* ------------------------------------------------------------------ *)
VARIABLES
    referenceInput,   \* the constructor's referenceString argument (a text)
    referenceString,  \* this.referenceString
    numFrames,        \* this.numFrames
    algorithm,        \* this.algorithm
    frames,           \* this.frames
    pageFaults,       \* this.pageFaults
    pageHits,         \* this.pageHits
    history,          \* this.history
    dataStructures,   \* this.dataStructures
    pc,               \* "ready", "running" (inside simulate) or "done"
    runs,             \* how many times simulate() has been entered
    i,                \* the loop index of simulate
    returned          \* per method, what its latest call returned: <<>> or <<value>>

config == <<referenceInput, referenceString, numFrames, algorithm>>
engine == <<frames, pageFaults, pageHits, history, dataStructures>>
vars == <<referenceInput, referenceString, numFrames, algorithm, frames, pageFaults,
          pageHits, history, dataStructures, pc, runs, i, returned>>

\* the instance as one record
Self ==
    [referenceString |-> referenceString,
     numFrames |-> numFrames,
     algorithm |-> algorithm,
     frames |-> frames,
     pageFaults |-> pageFaults,
     pageHits |-> pageHits,
     history |-> history,
     dataStructures |-> dataStructures]

NoReturn == [simulate |-> <<>>, getStatistics |-> <<>>, getExecutionTrace |-> <<>>]

Init ==
    /\ \/ /\ referenceInput \in PageInputs
          /\ numFrames \in 1..MaxFrames
          /\ algorithm \in Algorithms
       \/ /\ referenceInput \in ShortInputs
          /\ numFrames \in 0..MaxFrames
          /\ algorithm \in Selectors
       \/ /\ referenceInput \in NamedInputs
          /\ numFrames \in NamedFrameCounts
          /\ algorithm \in Algorithms
       \/ /\ referenceInput \in MixedInputs
          /\ numFrames \in 1..MaxFrames
          /\ algorithm \in Algorithms
    /\ LET new == constructor(referenceInput, numFrames, algorithm)
       IN  /\ referenceString = new.referenceString
           /\ frames = new.frames
           /\ pageFaults = new.pageFaults
           /\ pageHits = new.pageHits
           /\ history = new.history
           /\ dataStructures = new.dataStructures
    /\ pc = "ready"
    /\ runs = 0
    /\ i = 0
    /\ returned = NoReturn

\* simulate() is entered, on a fresh instance or on one already run: let i = 0
SimulateCall ==
    /\ pc \in {"ready", "done"}
    /\ runs < MaxRuns
    /\ pc' = "running"
    /\ runs' = runs + 1
    /\ i' = 0
    /\ returned' = NoReturn
    /\ UNCHANGED <<config, engine>>

\* one iteration of the loop of simulate: processPage(referenceString[i], i); i++
ProcessPage ==
    /\ pc = "running"
    /\ i < Len(referenceString)
    /\ LET next == processPage(Self, referenceString[i + 1], i)
       IN  /\ frames' = next.frames
           /\ pageFaults' = next.pageFaults
           /\ pageHits' = next.pageHits
           /\ history' = next.history
           /\ dataStructures' = next.dataStructures
    /\ i' = i + 1
    /\ UNCHANGED <<config, pc, runs, returned>>

\* the loop of simulate ends: return this.history
SimulateReturn ==
    /\ pc = "running"
    /\ ~(i < Len(referenceString))
    /\ pc' = "done"
    /\ returned' = [returned EXCEPT !.simulate = <<history>>]
    /\ UNCHANGED <<config, engine, runs, i>>

\* getStatistics() is called between runs: its result and its effect on this
GetStatistics ==
    /\ pc \in {"ready", "done"}
    /\ returned' = [returned EXCEPT !.getStatistics = <<getStatistics(Self)>>]
    /\ LET after == AfterGetStatistics(Self)
       IN  /\ frames' = after.frames
           /\ pageFaults' = after.pageFaults
           /\ pageHits' = after.pageHits
           /\ history' = after.history
           /\ dataStructures' = after.dataStructures
    /\ UNCHANGED <<config, pc, runs, i>>

\* getExecutionTrace() is called between runs: its result and its effect on this
GetExecutionTrace ==
    /\ pc \in {"ready", "done"}
    /\ returned' = [returned EXCEPT !.getExecutionTrace = <<getExecutionTrace(Self)>>]
    /\ LET after == AfterGetExecutionTrace(Self)
       IN  /\ frames' = after.frames
           /\ pageFaults' = after.pageFaults
           /\ pageHits' = after.pageHits
           /\ history' = after.history
           /\ dataStructures' = after.dataStructures
    /\ UNCHANGED <<config, pc, runs, i>>

Next ==
    \/ SimulateCall
    \/ ProcessPage
    \/ SimulateReturn
    \/ GetStatistics
    \/ GetExecutionTrace

Spec == Init /\ [][Next]_vars

(* ------------------------------------------------------------------ *)
(* Properties                                                         *)
(* ------------------------------------------------------------------ *)
IsInteger(v) == v \notin {NaN, Undefined, Null}
AllIntegers(refs) == \A k \in 1..Len(refs) : IsInteger(refs[k])

\* simulate() has completed once on a fresh instance
FirstRunDone == pc = "done" /\ runs = 1

\* the fault count of a fresh instance of another algorithm on the same input
FaultsOf(a) == simulate(constructor(referenceInput, numFrames, a)).pageFaults

\* C1: on every integer reference sequence and every F >= 1, Optimal's fault
\* count after simulate() is at most that of FIFO, of LRU and of Clock on the
\* same sequence with the same F.
C1_OptimalNeverMoreFaults ==
    (FirstRunDone /\ algorithm = "optimal" /\ numFrames >= 1
        /\ AllIntegers(referenceString))
    => \A a \in {"fifo", "lru", "clock"} : pageFaults <= FaultsOf(a)

\* Optimal has evicted, and done strictly better than FIFO, LRU and Clock
C1_Witness ==
    /\ FirstRunDone /\ algorithm = "optimal" /\ numFrames >= 1
    /\ AllIntegers(referenceString)
    /\ pageFaults > numFrames
    /\ \A a \in {"fifo", "lru", "clock"} : pageFaults < FaultsOf(a)

\* C2: FIFO on 1,2,3,4,1,2,5,1,2,3,4,5 yields 9 faults with 3 frames and 10
\* faults with 4 frames.
C2_BeladyAnomaly ==
    (FirstRunDone /\ algorithm = "fifo" /\ referenceInput = Render(BeladyPages, Comma))
    => /\ numFrames = 3 => pageFaults = 9
       /\ numFrames = 4 => pageFaults = 10

\* the run with 4 frames has ended with more faults than the one with 3
C2_Witness ==
    /\ FirstRunDone /\ algorithm = "fifo" /\ referenceInput = Render(BeladyPages, Comma)
    /\ referenceString = BeladyPages
    /\ numFrames = 4
    /\ pageFaults = 10
    /\ simulate(constructor(referenceInput, 3, "fifo")).pageFaults = 9

\* C3: in every reachable state pageHits + pageFaults is the number of
\* StepRecords in history; when simulate() has completed on a fresh instance
\* that number is the length of the reference sequence.
C3_CountersMatchHistory ==
    /\ pageHits + pageFaults = Len(history)
    /\ FirstRunDone => Len(history) = Len(referenceString)

\* a completed first run that saw both hits and faults
C3_Witness ==
    FirstRunDone /\ pageHits > 0 /\ pageFaults > 1 /\ Len(history) = Len(referenceString)

\* C4: for every algorithm and every F >= 1 the live frame list and the
\* frames snapshot of every StepRecord have at most F pages.
C4_FramesWithinCapacity ==
    numFrames >= 1
    => /\ Len(frames) <= numFrames
       /\ \A k \in 1..Len(history) : Len(history[k].frames) <= numFrames

\* a full frame list on which a victim has been replaced
C4_Witness ==
    /\ numFrames >= 1 /\ algorithm \in Algorithms
    /\ Len(frames) = numFrames
    /\ \E k \in 2..Len(history) :
          /\ ~history[k].isHit
          /\ Len(history[k - 1].frames) = numFrames
          /\ history[k].frames # history[k - 1].frames

\* a piece of the input that, trimmed, is neither empty nor all digits
NotAnInteger(piece) ==
    LET t == Trim(piece)
    IN  Len(t) > 0 /\ \E k \in 1..Len(t) : ~IsDigit(t[k])
HasNonIntegerToken(text) ==
    \E k \in 1..Len(SplitComma(text)) : NotAnInteger(SplitComma(text)[k])

NothingProcessed == history = <<>> /\ pageFaults = 0 /\ pageHits = 0
\* a configuration the documentation allows: F >= 1 and one of the four algorithms
ValidConfiguration == numFrames >= 1 /\ algorithm \in Algorithms

\* C5: a reference input with a token that is not an integer is refused at
\* construction, so no step is ever processed for it: history stays empty
\* and the hit and fault counters stay 0.
C5_NonIntegerTokenRefused ==
    (HasNonIntegerToken(referenceInput) /\ ValidConfiguration) => NothingProcessed

\* C6: frameCount < 1 or a selector outside fifo, lru, optimal, clock is
\* refused at construction, so no reference is ever processed under it.
C6_InvalidConfigurationRefused ==
    (AllIntegers(referenceString) /\ (numFrames < 1 \/ algorithm \notin Algorithms))
    => NothingProcessed

\* C7: an empty reference input yields an empty reference sequence, and
\* simulate() on it an empty history, zero faults, zero hits and a hit ratio
\* of 0, for every algorithm and every F >= 1.
C7_EmptyInputEmptyRun ==
    (referenceInput = <<>> /\ ValidConfiguration /\ FirstRunDone)
    => /\ referenceString = <<>>
       /\ NothingProcessed
       /\ getStatistics(Self).hitRatio = HitRatio(0, 0)

\* C8: the space-separated rendering of a list of integers parses to the
\* same ordered reference sequence as its comma-separated rendering.
C8_SpaceSeparatedParsesAlike ==
    \A l \in ListsUpTo({<<"1">>, <<"2">>}, MaxShort) :
        (referenceInput = Join(l, Space) /\ ValidConfiguration)
        => referenceString = ParseReferenceString(Join(l, Comma))

\* C9: history is append-only and its records are value copies: a step never
\* shortens history nor changes a StepRecord appended earlier.
C9_HistoryAppendOnly ==
    [][/\ Len(history') >= Len(history)
       /\ \A k \in 1..Len(history) : history'[k] = history[k]]_vars

\* a later step has changed the frame list and the policy state after an
\* earlier StepRecord was taken of them
C9_Witness ==
    /\ algorithm \in {"fifo", "lru", "clock"}
    /\ \E k \in 1..(Len(history) - 1) :
          /\ history[k].frames # frames
          /\ history[k].dataStructures # dataStructures
          /\ history[k].frames # history[k + 1].frames

\* C10: LRU on 7,0,1,2,0,3,0,4,2,3,0,3,2,1,2,0,1,7,0,1 with 3 frames ends,
\* on every run from a fresh instance, with 12 faults and 8 hits.
C10_LruDefaultSequence ==
    (FirstRunDone /\ algorithm = "lru" /\ numFrames = 3
        /\ referenceInput = Render(DefaultPages, Comma))
    => /\ pageFaults = 12
       /\ pageHits = 8
       /\ FaultsOf("lru") = pageFaults

\* the run on the default sequence has ended
C10_Witness ==
    /\ FirstRunDone /\ algorithm = "lru" /\ numFrames = 3
    /\ referenceInput = Render(DefaultPages, Comma)
    /\ referenceString = DefaultPages
    /\ Len(history) = 20

(* ------------------------------------------------------------------ *)
(* Steps read back from history                                       *)
(* ------------------------------------------------------------------ *)
\* the StepRecords of the first run of simulate()
FirstRunSteps ==
    1..(IF Len(history) < Len(referenceString) THEN Len(history) ELSE Len(referenceString))

\* the frame list before step k (1-based position in history)
FramesBefore(h, k) == IF k = 1 THEN <<>> ELSE h[k - 1].frames

PagesOf(arr) == {arr[j] : j \in 1..Len(arr)}

\* step k is a fault that found the frame list full, so a victim was selected
IsEviction(h, k) == ~h[k].isHit /\ ~(Len(FramesBefore(h, k)) < numFrames)

\* the step at which page p, resident before step k, entered the frame list
LoadedAt(h, k, p) ==
    CHOOSE j \in 1..(k - 1) :
        /\ p \in PagesOf(h[j].frames)
        /\ p \notin PagesOf(FramesBefore(h, j))
        /\ \A m \in j..(k - 1) : p \in PagesOf(h[m].frames)

\* p is the resident page before step k that was loaded earliest
LoadedEarliest(h, k, p) ==
    /\ p \in PagesOf(FramesBefore(h, k))
    /\ \A q \in PagesOf(FramesBefore(h, k)) : LoadedAt(h, k, p) <= LoadedAt(h, k, q)

\* the victim selectClockPage picks at step k of a Clock run (k >= 2, F >= 1:
\* the StepRecord before it holds the flags and the pointer it starts from)
ClockVictim(h, k) == selectClockPage(h[k - 1].frames, h[k - 1].dataStructures).page

FifoHistory == simulate(constructor(referenceInput, numFrames, "fifo")).history

\* C11: under Clock with F >= 1, while no hit has occurred, every eviction
\* selects the resident page that was loaded earliest, and the frames
\* snapshot of every step equals the one FIFO records at that step on the
\* same input and frame count.
C11_ClockIsFifoWithoutHits ==
    (algorithm = "clock" /\ numFrames >= 1)
    => \A k \in FirstRunSteps :
          (\A j \in 1..k : ~history[j].isHit)
          => /\ IsEviction(history, k) => LoadedEarliest(history, k, ClockVictim(history, k))
             /\ history[k].frames = FifoHistory[k].frames

\* the same on integer reference sequences only
ClockIsFifoOnIntegers == AllIntegers(referenceString) => C11_ClockIsFifoWithoutHits

Reports == {"getStatistics", "getExecutionTrace"}

\* C13: once simulate() has completed, every call of getStatistics() or
\* getExecutionTrace(), in whatever order, leaves frames, counters, policy
\* state and history as they were and returns what the earlier calls of the
\* same method returned.
C13_ReportingIdempotent ==
    [][(pc = "done" /\ pc' = "done")
       => /\ engine' = engine
          /\ \A op \in Reports : returned[op] # <<>> => returned'[op] = returned[op]]_vars

\* both reports were taken after a run with hits and faults
C13_Witness ==
    /\ pc = "done"
    /\ pageHits > 0
    /\ pageFaults > 0
    /\ returned.getStatistics = <<getStatistics(Self)>>
    /\ returned.getExecutionTrace = <<getExecutionTrace(Self)>>
    /\ returned.simulate = <<history>>

\* a step of the loop of simulate is being taken
ProcessPageStep == pc = "running" /\ i' = i + 1

\* C14: under every algorithm, a step is recorded as a hit exactly when the
\* referenced page is in the frame list before the step; a hit leaves the
\* frame list as it was, adds one to the hit counter and leaves the fault
\* counter alone.
C14_HitIffResident ==
    [][ProcessPageStep
       => LET pageNumber == referenceString[i + 1]
              resident == pageNumber \in PagesOf(frames)
              record == history'[Len(history')]
          IN  /\ record.page = pageNumber
              /\ record.isHit <=> resident
              /\ resident => /\ frames' = frames
                             /\ pageHits' = pageHits + 1
                             /\ pageFaults' = pageFaults]_vars

\* a hit on a full frame list has just been recorded after an eviction
C14_Witness ==
    /\ pc = "running"
    /\ Len(history) >= 2
    /\ history[Len(history)].isHit
    /\ history[Len(history)].frames = history[Len(history) - 1].frames
    /\ Len(frames) = numFrames
    /\ pageHits >= 1
    /\ pageFaults > numFrames

\* the victim selectPageToReplace picks in the current state
Victim == selectPageToReplace(algorithm, frames, dataStructures, i).page

\* C15: on a fault with F >= 1, a frame list with room gets the referenced
\* page appended and keeps its slots; a full one has exactly the slot holding
\* the selected victim overwritten with the referenced page, every other slot
\* keeping its page and position.
C15_FaultFrameEffect ==
    [][(ProcessPageStep /\ ValidConfiguration /\ referenceString[i + 1] \notin PagesOf(frames))
       => IF Len(frames) < numFrames
          THEN frames' = Append(frames, referenceString[i + 1])
          ELSE \E slot \in 1..Len(frames) :
                  /\ frames[slot] = Victim
                  /\ frames' = [frames EXCEPT ![slot] = referenceString[i + 1]]]_vars

\* the same on integer reference sequences only
FaultFrameEffectOnIntegers ==
    [][AllIntegers(referenceString) => C15_FaultFrameEffect!1]_vars

\* the next step of the loop is a fault that finds the frame list full
EvictionAhead ==
    /\ pc = "running"
    /\ i < Len(referenceString)
    /\ referenceString[i + 1] \notin PagesOf(frames)
    /\ ~(Len(frames) < numFrames)

\* C16: with F >= 1, one of the four algorithms and integer references, the
\* victim of every fault on a full frame list is an integer page resident in
\* the frame list, and a completed simulate() has processed all N references
\* in order.
C16_VictimResident ==
    (ValidConfiguration /\ AllIntegers(referenceString))
    => /\ EvictionAhead => (IsInteger(Victim) /\ Victim \in PagesOf(frames))
       /\ FirstRunDone
          => /\ Len(history) = Len(referenceString)
             /\ pageFaults + pageHits = Len(referenceString)
             /\ \A k \in 1..Len(history) :
                   history[k].step = k - 1 /\ history[k].page = referenceString[k]

\* an eviction is ahead after an earlier eviction and a hit
C16_Witness ==
    /\ ValidConfiguration
    /\ AllIntegers(referenceString)
    /\ EvictionAhead
    /\ pageFaults > numFrames
    /\ pageHits >= 1
    /\ Victim \in PagesOf(frames)

\* the 0-based index of the next occurrence of page p after step index
\* step in the reference sequence, +infinity when p never recurs
NextUse(p, step) ==
    LET later == {k \in (step + 1)..(Len(referenceString) - 1) : referenceString[k + 1] = p}
    IN  IF later = {} THEN Infinity ELSE CHOOSE k \in later : \A j \in later : k <= j

\* the lowest frame slot whose page has the largest next occurrence
FarthestSlot ==
    CHOOSE slot \in 1..Len(frames) :
        /\ \A other \in 1..Len(frames) : NextUse(frames[slot], i) >= NextUse(frames[other], i)
        /\ \A lower \in 1..(slot - 1) : NextUse(frames[lower], i) < NextUse(frames[slot], i)

\* C17: under Optimal, on a fault at step i with a full frame list, the
\* victim is a resident page whose next occurrence after i is largest among
\* the resident pages, a page that never recurs counting as +infinity; among
\* several such pages it is the one in the lowest frame slot.
C17_OptimalVictim ==
    (algorithm = "optimal" /\ AllIntegers(referenceString) /\ EvictionAhead)
    => /\ Victim \in PagesOf(frames)
       /\ \A q \in PagesOf(frames) : NextUse(Victim, i) >= NextUse(q, i)
       /\ Victim = frames[FarthestSlot]

\* the same with at least one frame, on every reference sequence the
\* constructor admits
OptimalVictimWithFrames ==
    (algorithm = "optimal" /\ numFrames >= 1 /\ EvictionAhead)
    => /\ Victim \in PagesOf(frames)
       /\ \A q \in PagesOf(frames) : NextUse(Victim, i) >= NextUse(q, i)
       /\ Victim = frames[FarthestSlot]

\* the position in history of the latest access, hit or fault, to page p
LastAccess(p) ==
    CHOOSE k \in 1..Len(history) :
        /\ history[k].page = p
        /\ \A j \in (k + 1)..Len(history) : history[j].page # p

\* how often v occurs in arr
Occurrences(arr, v) == Cardinality({k \in 1..Len(arr) : arr[k] = v})

\* the victim ahead is the resident page accessed longest ago, and the page
\* accessed last sits once in the recency list, at its end
LruRule ==
    /\ EvictionAhead
       => /\ Victim \in PagesOf(frames)
          /\ \A q \in PagesOf(frames) : LastAccess(Victim) <= LastAccess(q)
    /\ Len(history) > 0
       => LET recencyList == dataStructures.recencyList
              accessed == history[Len(history)].page
          IN  /\ Len(recencyList) > 0
              /\ recencyList[Len(recencyList)] = accessed
              /\ Occurrences(recencyList, accessed) = 1

\* C18: under LRU, on a fault with a full frame list, the victim is the
\* resident page whose most recent access, hit or fault, is the earliest
\* among the resident pages; every access moves the accessed page to the
\* most-recently-used end of the recency list.
C18_LruVictim == (algorithm = "lru" /\ numFrames >= 1) => LruRule

\* the same on integer reference sequences only
LruVictimOnIntegers ==
    (algorithm = "lru" /\ numFrames >= 1 /\ AllIntegers(referenceString)) => LruRule

\* the victim ahead is the resident page loaded earliest, and no recorded
\* hit changed the insertion queue
FifoRule ==
    /\ EvictionAhead => LoadedEarliest(history, Len(history) + 1, Victim)
    /\ \A k \in 2..Len(history) :
          history[k].isHit
          => history[k].dataStructures.queue = history[k - 1].dataStructures.queue

\* C19: under FIFO, on a fault with a full frame list, the victim is the
\* resident page that was loaded into a frame earliest, whatever hits it
\* has received since; a hit leaves the insertion queue unchanged.
C19_FifoVictim == (algorithm = "fifo" /\ numFrames >= 1) => FifoRule

\* the same on integer reference sequences only
FifoVictimOnIntegers ==
    (algorithm = "fifo" /\ numFrames >= 1 /\ AllIntegers(referenceString)) => FifoRule

\* the frame slot (1-based) d slots past the pointer, modulo F
SlotPast(d) == ((dataStructures.clockPointer + d) % numFrames) + 1

\* how many slots the scan ahead skips: the pages at the pointer and after it
\* whose flags are set, at most all F of them
Skipped ==
    CHOOSE d \in 0..numFrames :
        /\ d = numFrames \/ ~FlagSet(dataStructures.referenceFlags, frames[SlotPast(d)])
        /\ \A j \in 0..(d - 1) : FlagSet(dataStructures.referenceFlags, frames[SlotPast(j)])

\* the scan ahead clears the flags of the pages it skips and of no other,
\* takes the first page found with a clear flag and leaves the pointer one
\* slot past it; the page accessed last has its flag set
ClockRule ==
    /\ EvictionAhead
       => LET scan == selectClockPage(frames, dataStructures)
              skippedPages == {frames[SlotPast(j)] : j \in 0..(Skipped - 1)}
          IN  /\ scan.page \in PagesOf(frames)
              /\ scan.page = frames[SlotPast(Skipped)]
              /\ scan.clockPointer = (dataStructures.clockPointer + Skipped + 1) % numFrames
              /\ \A p \in skippedPages : ~FlagSet(scan.referenceFlags, p)
              /\ \A p \in DOMAIN dataStructures.referenceFlags \ skippedPages :
                    scan.referenceFlags[p] = dataStructures.referenceFlags[p]
    /\ Len(history) > 0
       => FlagSet(dataStructures.referenceFlags, history[Len(history)].page)

\* C20: under Clock, on a fault with a full frame list, the scan starts at
\* the pointer's slot, clears the flag of every inspected page whose flag is
\* set and moves on by one slot modulo F, takes the first inspected page with
\* a clear flag as victim and leaves the pointer one slot past the victim's
\* slot modulo F; every access, hit or fault, sets the accessed page's flag.
C20_ClockScan == (algorithm = "clock" /\ AllIntegers(referenceString)) => ClockRule

\* the same with at least one frame, on every reference sequence the
\* constructor admits
ClockScanWithFrames == (algorithm = "clock" /\ numFrames >= 1) => ClockRule

\* how many frame slots the Clock scan ahead inspects before it returns
Inspections == selectClockPage(frames, dataStructures).inspected

\* C21: with F >= 1, every invocation of the Clock victim-selection loop
\* returns, after inspecting at least one and at most 2F frame slots,
\* whatever pointer position and reference flags it starts from.
C21_ClockScanBounded ==
    (algorithm = "clock" /\ numFrames >= 1 /\ EvictionAhead)
    => /\ Inspections >= 1
       /\ Inspections <= 2 * numFrames

\* a scan is ahead that finds every flag set and goes once round the frames
C21_Witness ==
    /\ algorithm = "clock"
    /\ numFrames = 2
    /\ EvictionAhead
    /\ \A k \in 1..Len(frames) : FlagSet(dataStructures.referenceFlags, frames[k])
    /\ Inspections = numFrames + 1

\* the 0-based positions at which page p occurs in the reference sequence
PositionsOf(p) == {k \in 0..(Len(referenceString) - 1) : referenceString[k + 1] = p}

\* list holds exactly the members of positions, in ascending order
AscendingListOf(list, positions) ==
    /\ {list[k] : k \in 1..Len(list)} = positions
    /\ \A k \in 1..(Len(list) - 1) : list[k] < list[k + 1]

\* C22: under Optimal the future-occurrence index exists before the first
\* step, maps every page of the reference sequence to the ascending list of
\* all positions where it occurs, and is the same in the live policy state
\* and in the snapshot of every StepRecord.
C22_FutureIndexFixed ==
    algorithm = "optimal"
    => /\ DOMAIN dataStructures = {"futureReferences"}
       /\ DOMAIN dataStructures.futureReferences = PagesOf(referenceString)
       /\ \A p \in PagesOf(referenceString) :
             AscendingListOf(dataStructures.futureReferences[p], PositionsOf(p))
       /\ \A k \in 1..Len(history) : history[k].dataStructures = dataStructures

\* an Optimal run has evicted on a sequence in which a page recurs
C22_Witness ==
    /\ algorithm = "optimal"
    /\ pc = "done"
    /\ pageFaults > numFrames
    /\ numFrames >= 1
    /\ \E p \in PagesOf(referenceString) : Len(dataStructures.futureReferences[p]) >= 2
    /\ history[1].dataStructures.futureReferences = dataStructures.futureReferences

\* list holds exactly the pages of the frame list resident, each once
ExactlyResident(list, resident) ==
    /\ Len(list) = Len(resident)
    /\ PagesOf(list) = PagesOf(resident)
    /\ Cardinality(PagesOf(list)) = Len(list)

\* the insertion queue of FIFO, the recency list of LRU
PolicyList(ds) == IF algorithm = "fifo" THEN ds.queue ELSE ds.recencyList

\* C23: with F >= 1 and integer references, after every step the insertion
\* queue of FIFO and the recency list of LRU hold exactly the pages resident
\* in the frame list, each once: same length, no stale and no missing page.
C23_ListMatchesFrames ==
    (algorithm \in {"fifo", "lru"} /\ numFrames >= 1 /\ AllIntegers(referenceString))
    => /\ ExactlyResident(PolicyList(dataStructures), frames)
       /\ \A k \in 1..Len(history) :
             ExactlyResident(PolicyList(history[k].dataStructures), history[k].frames)

\* a hit has followed an eviction, the list order differing from the slot order
C23_Witness ==
    /\ algorithm \in {"fifo", "lru"}
    /\ numFrames >= 2
    /\ AllIntegers(referenceString)
    /\ pageFaults > numFrames
    /\ pageHits >= 1
    /\ PolicyList(dataStructures) # frames
    /\ ExactlyResident(PolicyList(dataStructures), frames)

\* no page sits in two slots of arr
NoDuplicates(arr) == \A j, k \in 1..Len(arr) : arr[j] = arr[k] => j = k

\* C24: for every algorithm, every F >= 1 and every integer reference
\* sequence, no page is held in two slots of the frame list, in the live
\* state and in the frames snapshot of every StepRecord.
C24_NoDuplicateFrames ==
    (numFrames >= 1 /\ AllIntegers(referenceString))
    => /\ NoDuplicates(frames)
       /\ \A k \in 1..Len(history) : NoDuplicates(history[k].frames)

\* two different pages are resident after several evictions and a hit
C24_Witness ==
    /\ numFrames = 2
    /\ AllIntegers(referenceString)
    /\ algorithm \in Algorithms
    /\ Len(frames) = 2
    /\ frames[1] # frames[2]
    /\ pageFaults >= 4
    /\ pageHits >= 1
    /\ NoDuplicates(frames)

\* the pointer recorded before step k: 0 as set by initializeAlgorithm, or
\* the one of the StepRecord before
PointerBefore(h, k) == IF k = 1 THEN 0 ELSE h[k - 1].dataStructures.clockPointer

\* C25: under Clock with F >= 1 the pointer of the live state and of every
\* StepRecord is an integer in 0..F-1; it is 0 while the frame list is still
\* filling and differs from the pointer before a step only when the step is
\* a fault on a full frame list.
C25_ClockPointerInRange ==
    (algorithm = "clock" /\ numFrames >= 1)
    => /\ dataStructures.clockPointer \in 0..(numFrames - 1)
       /\ dataStructures.clockPointer = PointerBefore(history, Len(history) + 1)
       /\ Len(frames) < numFrames => dataStructures.clockPointer = 0
       /\ \A k \in 1..Len(history) :
             /\ history[k].dataStructures.clockPointer \in 0..(numFrames - 1)
             /\ Len(history[k].frames) < numFrames
                => history[k].dataStructures.clockPointer = 0
             /\ history[k].dataStructures.clockPointer # PointerBefore(history, k)
                => IsEviction(history, k)

\* the pointer has moved off slot 0 and a later hit has left it where it was
C25_Witness ==
    /\ algorithm = "clock"
    /\ numFrames = 2
    /\ Len(history) >= 4
    /\ dataStructures.clockPointer = 1
    /\ history[Len(history)].isHit
    /\ history[Len(history) - 1].dataStructures.clockPointer = 1
    /\ history[2].dataStructures.clockPointer = 0

\* a fresh LRU instance on the same input with one frame more, run to its end
LruWithOneMore == simulate(constructor(referenceInput, numFrames + 1, "lru"))

\* C26: under LRU, for every integer reference sequence and every F >= 1,
\* the pages a completed run with F frames records as resident after each
\* step are among those resident after the same step with F + 1 frames, and
\* the run with F + 1 frames ends with no more faults than the run with F.
C26_LruInclusion ==
    (algorithm = "lru" /\ numFrames >= 1 /\ AllIntegers(referenceString) /\ FirstRunDone)
    => /\ \A k \in 1..Len(history) :
             PagesOf(history[k].frames) \subseteq PagesOf(LruWithOneMore.history[k].frames)
       /\ LruWithOneMore.pageFaults <= pageFaults

\* the run with F frames has evicted and ended with strictly more faults than
\* the one with F + 1 frames
C26_Witness ==
    /\ algorithm = "lru"
    /\ numFrames >= 1
    /\ AllIntegers(referenceString)
    /\ FirstRunDone
    /\ pageFaults > numFrames
    /\ LruWithOneMore.pageFaults < pageFaults
    /\ PagesOf(frames) # PagesOf(LruWithOneMore.frames)

====
